---- MODULE Spec2Model ----
(***************************************************************************)
(* Model of the curve-reordering step of pgoelz/equalized (resmon.py) and   *)
(* of the driver loop that chains it (resmonplot.py).                       *)
(*                                                                          *)
(* Numbers are exact rationals <<n, d>> with d > 0 and gcd(n, d) = 1, so    *)
(* every comparison of the algorithm is the exact-arithmetic one.           *)
(***************************************************************************)
EXTENDS Integers, Sequences, FiniteSets, TLC

(***************************************************************************)
(* Exact rational arithmetic                                               *)
(***************************************************************************)
Abs(n) == IF n < 0 THEN -n ELSE n

RECURSIVE GCD(_, _)
GCD(a, b) == IF b = 0 THEN a ELSE GCD(b, a % b)

Norm(n, d) ==
    LET s == IF d < 0 THEN -1 ELSE 1
        g == GCD(Abs(n), Abs(d))
    IN  <<(s * n) \div g, (s * d) \div g>>

Rat(n) == <<n, 1>>
Zero == Rat(0)
One == Rat(1)

RAdd(a, b) ==
    LET g == GCD(a[2], b[2])
        m == (a[2] \div g) * b[2]
    IN  Norm(a[1] * (m \div a[2]) + b[1] * (m \div b[2]), m)

RNeg(a) == <<-a[1], a[2]>>
RSub(a, b) == RAdd(a, RNeg(b))

RMul(a, b) ==
    LET g1 == GCD(Abs(a[1]), b[2])
        g2 == GCD(Abs(b[1]), a[2])
    IN  Norm((a[1] \div g1) * (b[1] \div g2), (a[2] \div g2) * (b[2] \div g1))

\* only used with b # 0: a zero divisor is the ZeroDivisionError action
RDiv(a, b) == RMul(a, Norm(b[2], b[1]))

RAbs(a) == <<Abs(a[1]), a[2]>>
RLt(a, b) == RSub(a, b)[1] < 0
RLe(a, b) == RSub(a, b)[1] <= 0
RGt(a, b) == RLt(b, a)
RGe(a, b) == RLe(b, a)

\* resmon.py line 5: EPS = 0.00005
EPSDen == 20000
EPS == <<1, EPSDen>>

(***************************************************************************)
(* LineSegment                                                             *)
(***************************************************************************)
LineSegment(x, y, style) == [x |-> x, y |-> y, style |-> style]

\* split that cuts the style range at a + fraction instead of
\* a + fraction * (b - a)
splitStyleUnscaled(seg, fraction) ==
    LET left_style == <<seg.style[1], RAdd(seg.style[1], fraction)>>
        right_style == <<left_style[2], seg.style[2]>>
        left == LineSegment(RMul(fraction, seg.x), RMul(fraction, seg.y), left_style)
        right == LineSegment(RMul(RSub(One, fraction), seg.x),
                             RMul(RSub(One, fraction), seg.y), right_style)
    IN  <<left, right>>

\* LineSegment.split: <<left, right>>
split(seg, fraction) ==
    LET left_style == <<seg.style[1],
                        RAdd(seg.style[1],
                             RMul(fraction, RSub(seg.style[2], seg.style[1])))>>
        right_style == <<left_style[2], seg.style[2]>>
        left == LineSegment(RMul(fraction, seg.x), RMul(fraction, seg.y), left_style)
        right == LineSegment(RMul(RSub(One, fraction), seg.x),
                             RMul(RSub(One, fraction), seg.y), right_style)
    IN  <<left, right>>

RECURSIVE SumX(_)
SumX(c) == IF c = <<>> THEN Zero ELSE RAdd(c[1].x, SumX(Tail(c)))

RECURSIVE SumY(_)
SumY(c) == IF c = <<>> THEN Zero ELSE RAdd(c[1].y, SumY(Tail(c)))

\* Python slice c[i:j] with 0-based i, exclusive j, on a 1-based sequence
Slice(c, i, j) == IF j <= i THEN <<>> ELSE SubSeq(c, i + 1, j)

(***************************************************************************)
(* Driver (resmonplot.py): the lower line, its curve, the targets           *)
(***************************************************************************)
\* largest number of segments of the lower line
MaxSegs == 2
\* largest number of chained reorder_step calls (steps of the upper line)
MaxCalls == 2

\* Displacements between consecutive points of the lower line.  Each has an
\* integer Euclidean length, so that the style fractions are exact.
Steps == {<<2, 0>>, <<4, 3>>, <<3, 4>>, <<5, 12>>, <<0, 1>>}

\* `points`: coordinate lists of the lower line, starting at the origin
RECURSIVE PointLists(_)
PointLists(n) ==
    IF n = 0 THEN {<< <<0, 0>> >>}
    ELSE {Append(p, <<p[Len(p)][1] + s[1], p[Len(p)][2] + s[2]>>) :
              p \in PointLists(n - 1), s \in Steps}

LowerLines == UNION {PointLists(n) : n \in 1..MaxSegs}

\* math.sqrt, exact on the perfect squares that Steps produces
Sqrt(n) == CHOOSE k \in 0..n : k * k = n

segment_length(points, i) ==
    Sqrt((points[i + 1][1] - points[i][1]) * (points[i + 1][1] - points[i][1])
         + (points[i + 1][2] - points[i][2]) * (points[i + 1][2] - points[i][2]))

RECURSIVE length_so_far(_, _)
length_so_far(points, i) ==
    IF i = 0 THEN 0 ELSE length_so_far(points, i - 1) + segment_length(points, i)

\* the curve the driver builds from `points`
InitialCurve(points) ==
    LET length == length_so_far(points, Len(points) - 1)
    IN  [i \in 1..(Len(points) - 1) |->
            LineSegment(Rat(points[i + 1][1] - points[i][1]),
                        Rat(points[i + 1][2] - points[i][2]),
                        <<Norm(length_so_far(points, i - 1), length),
                          Norm(length_so_far(points, i), length)>>)]

\* height of the polyline c at abscissa x, 0 <= x <= SumX(c)
RECURSIVE HeightAt(_, _)
HeightAt(c, x) ==
    IF c = <<>> THEN Zero
    ELSE IF RGe(x, c[1].x) THEN RAdd(c[1].y, HeightAt(Tail(c), RSub(x, c[1].x)))
    ELSE RMul(RDiv(x, c[1].x), c[1].y)

\* height of the leftmost and of the rightmost window of width x on c
LeftHeight(c, x) == HeightAt(c, x)
RightHeight(c, x) == RSub(SumY(c), HeightAt(c, RSub(SumX(c), x)))

\* widths of the upper line's steps tried against the curve c; the width
\* just inside the tolerance is tried against the curve as the driver built it
TargetXs(c, first) ==
    LET W == SumX(c)
    IN  {Zero, RMul(W, <<1, 2>>), W, RAdd(W, One)}
        \cup (IF c = <<>> THEN {} ELSE {c[Len(c)].x})
        \cup (IF first THEN {RSub(W, <<1, 2 * EPSDen>>)} ELSE {})

\* heights of the upper line's steps tried together with width x
TargetYs(c, x) ==
    IF RLt(x, Zero) \/ RGt(x, SumX(c)) THEN {SumY(c)}
    ELSE {LeftHeight(c, x), RightHeight(c, x),
          RMul(RAdd(LeftHeight(c, x), RightHeight(c, x)), <<1, 2>>), SumY(c)}

\* every segment has positive width
AllPositive(c) == \A i \in 1..Len(c) : c[i].x[1] > 0

\* the slope dy/dx is non-decreasing along c (widths positive)
Convex(c) ==
    \A i \in 1..(Len(c) - 1) :
        RLe(RMul(c[i].y, c[i + 1].x), RMul(c[i + 1].y, c[i].x))

\* the precondition of reorder_step(x, y, c)
ValidInput(x, y, c) ==
    /\ c # <<>>
    /\ AllPositive(c)
    /\ Convex(c)
    /\ RGt(x, Zero)
    /\ RLe(x, SumX(c))
    /\ RLe(LeftHeight(c, x), y)
    /\ RLe(y, RightHeight(c, x))

(***************************************************************************)
(* State                                                                   *)
(***************************************************************************)
VARIABLES
    lower,          \* the curve the driver built (resmonplot.py `curve`)
    rest,           \* the driver's `rest`
    found,          \* the driver's `a`: found_section of the last call
    allFound,       \* every found_section written so far, in order
    calls,          \* number of reorder_step calls started
    curve,          \* reorder_step parameter
    segment_x,      \* reorder_step parameter
    segment_y,      \* reorder_step parameter
    l, r,           \* the two pointers (0-based)
    x_lleft_rleft,
    y_lleft_rleft,
    pc,             \* "driver", "entry", "advance", "loop", "failed"
    outcome,        \* how the last call ended
    valid           \* history: every call so far was given a valid input

vars == <<lower, rest, found, allFound, calls, curve, segment_x, segment_y,
          l, r, x_lleft_rleft, y_lleft_rleft, pc, outcome, valid>>

driverVars == <<lower, rest, found, allFound, calls, valid>>
paramVars == <<curve, segment_x, segment_y>>
sweepVars == <<l, r, x_lleft_rleft, y_lleft_rleft>>

\* 0-based indexing of the Python list
At(c, i) == c[i + 1]

Init ==
    /\ \E points \in LowerLines : lower = InitialCurve(points)
    /\ rest = lower
    /\ found = <<>>
    /\ allFound = <<>>
    /\ calls = 0
    /\ curve = <<>>
    /\ segment_x = Zero
    /\ segment_y = Zero
    /\ l = 0
    /\ r = 0
    /\ x_lleft_rleft = Zero
    /\ y_lleft_rleft = Zero
    /\ pc = "driver"
    /\ outcome = "none"
    /\ valid = TRUE

(***************************************************************************)
(* reorder_step                                                            *)
(***************************************************************************)
\* the driver's loop calls reorder_step(x, y, rest)
Call ==
    /\ pc = "driver"
    /\ calls < MaxCalls
    /\ \E x \in TargetXs(rest, calls = 0) : \E y \in TargetYs(rest, x) :
          /\ segment_x' = x
          /\ segment_y' = y
    /\ curve' = rest
    /\ calls' = calls + 1
    /\ l' = 0
    /\ r' = 0
    /\ x_lleft_rleft' = Zero
    /\ y_lleft_rleft' = Zero
    /\ pc' = "entry"
    /\ valid' = (valid /\ ValidInput(segment_x', segment_y', rest))
    /\ UNCHANGED <<lower, rest, found, allFound, outcome>>

\* the value reorder_step returns reaches the driver: a, rest = ...
Return(found_section, rest_section, how) ==
    /\ found' = found_section
    /\ rest' = rest_section
    /\ allFound' = allFound \o found_section
    /\ outcome' = how
    /\ pc' = "driver"
    /\ UNCHANGED <<lower, calls, valid, paramVars, sweepVars>>

\* an exception leaves reorder_step and ends the driver
Raise(what) ==
    /\ outcome' = what
    /\ pc' = "failed"
    /\ UNCHANGED <<driverVars, paramVars, sweepVars>>

\* rounding error mitigation: abs(sum(e.x for e in curve) - segment_x) < EPS
WidthMatches == RLt(RAbs(RSub(SumX(curve), segment_x)), EPS)
HeightMatches == RLt(RAbs(RSub(SumY(curve), segment_y)), EPS)

\* the base case returning its pair the wrong way round
BaseCaseReturnSwapped ==
    /\ pc = "entry"
    /\ WidthMatches
    /\ HeightMatches
    /\ Return(<<>>, curve, "base")

BaseCaseReturn ==
    /\ pc = "entry"
    /\ WidthMatches
    /\ HeightMatches
    /\ Return(curve, <<>>, "base")

BaseCaseAssertionError ==
    /\ pc = "entry"
    /\ WidthMatches
    /\ ~HeightMatches
    /\ Raise("AssertionError base")

EnterSweep ==
    /\ pc = "entry"
    /\ ~WidthMatches
    /\ l' = 0
    /\ r' = 0
    /\ x_lleft_rleft' = Zero
    /\ y_lleft_rleft' = Zero
    /\ pc' = "advance"
    /\ UNCHANGED <<driverVars, paramVars, outcome>>

\* while x_lleft_rleft + curve[r].x < segment_x
InitialAdvance ==
    /\ pc = "advance"
    /\ r < Len(curve)
    /\ RLt(RAdd(x_lleft_rleft, At(curve, r).x), segment_x)
    /\ x_lleft_rleft' = RAdd(x_lleft_rleft, At(curve, r).x)
    /\ y_lleft_rleft' = RAdd(y_lleft_rleft, At(curve, r).y)
    /\ r' = r + 1
    /\ UNCHANGED <<driverVars, paramVars, l, pc, outcome>>

\* curve[r] with r = len(curve)
InitialAdvanceIndexError ==
    /\ pc = "advance"
    /\ r >= Len(curve)
    /\ Raise("IndexError")

InitialAdvanceDone ==
    /\ pc = "advance"
    /\ r < Len(curve)
    /\ ~RLt(RAdd(x_lleft_rleft, At(curve, r).x), segment_x)
    /\ pc' = "loop"
    /\ UNCHANGED <<driverVars, paramVars, sweepVars, outcome>>

\* while l < len(curve) and r < len(curve)
InLoop == l < Len(curve) /\ r < Len(curve)

AssertionI == RLt(RSub(x_lleft_rleft, At(curve, l).x), segment_x)
AssertionII == RGe(RAdd(x_lleft_rleft, At(curve, r).x), segment_x)

min_l_pos ==
    IF RGe(segment_x, x_lleft_rleft) THEN Zero
    ELSE RSub(x_lleft_rleft, segment_x)

min_r_pos ==
    IF RGe(segment_x, x_lleft_rleft) THEN RSub(segment_x, x_lleft_rleft)
    ELSE Zero

right_aligned_x == RSub(RAdd(x_lleft_rleft, At(curve, r).x), At(curve, l).x)

\* max_l_pos without the case "right blocked at B"
max_l_pos_unclamped == RSub(At(curve, l).x, RSub(segment_x, right_aligned_x))

max_l_pos ==
    IF RGe(segment_x, right_aligned_x)
    THEN RSub(At(curve, l).x, RSub(segment_x, right_aligned_x))
    ELSE At(curve, l).x

max_r_pos ==
    IF RGe(segment_x, right_aligned_x) THEN At(curve, r).x
    ELSE RSub(At(curve, r).x, RSub(right_aligned_x, segment_x))

min_y_diff ==
    RAdd(RSub(y_lleft_rleft,
              RMul(RDiv(min_l_pos, At(curve, l).x), At(curve, l).y)),
         RMul(RDiv(min_r_pos, At(curve, r).x), At(curve, r).y))

max_y_diff ==
    RAdd(RSub(y_lleft_rleft,
              RMul(RDiv(max_l_pos, At(curve, l).x), At(curve, l).y)),
         RMul(RDiv(max_r_pos, At(curve, r).x), At(curve, r).y))

fr ==
    IF max_y_diff # min_y_diff
    THEN RDiv(RSub(segment_y, min_y_diff), RSub(max_y_diff, min_y_diff))
    ELSE Zero

of_left ==
    RDiv(RAdd(RMul(fr, max_l_pos), RMul(RSub(One, fr), min_l_pos)), At(curve, l).x)

of_right ==
    RDiv(RAdd(RMul(fr, max_r_pos), RMul(RSub(One, fr), min_r_pos)), At(curve, r).x)

\* if s.x > 0 or s.y > 0: mid.append(s)
Kept(s) == IF s.x[1] > 0 \/ s.y[1] > 0 THEN <<s>> ELSE <<>>

\* mid2 + curve[l+1:r] + mid3
found_section ==
    LET l2 == split(At(curve, l), of_left)[2]
        r1 == split(At(curve, r), of_right)[1]
    IN  Kept(l2) \o Slice(curve, l + 1, r) \o Kept(r1)

\* rest with the two cut pieces in the wrong order
rest_section_swapped ==
    LET l1 == split(At(curve, l), of_left)[1]
        r2 == split(At(curve, r), of_right)[2]
    IN  Slice(curve, 0, l) \o Kept(r2) \o Kept(l1) \o Slice(curve, r + 1, Len(curve))

\* curve[:l] + mid1 + curve[r+1:]
rest_section ==
    LET l1 == split(At(curve, l), of_left)[1]
        r2 == split(At(curve, r), of_right)[2]
    IN  Slice(curve, 0, l) \o Kept(l1) \o Kept(r2) \o Slice(curve, r + 1, Len(curve))

LoopExhausted ==
    /\ pc = "loop"
    /\ ~InLoop
    /\ Raise("Exception unreachable")

LoopAssertionError ==
    /\ pc = "loop"
    /\ InLoop
    /\ ~(AssertionI /\ AssertionII)
    /\ Raise(IF ~AssertionI THEN "AssertionError I" ELSE "AssertionError II")

\* min_l_pos / curve[l].x or min_r_pos / curve[r].x with a zero width
Divisible == At(curve, l).x # Zero /\ At(curve, r).x # Zero

LoopZeroDivisionError ==
    /\ pc = "loop"
    /\ InLoop
    /\ AssertionI /\ AssertionII
    /\ ~Divisible
    /\ Raise("ZeroDivisionError")

InWindow == RLe(min_y_diff, segment_y) /\ RLe(segment_y, max_y_diff)

FoundReturn ==
    /\ pc = "loop"
    /\ InLoop
    /\ AssertionI /\ AssertionII
    /\ Divisible
    /\ InWindow
    /\ Return(found_section, rest_section, "sweep")

\* x_lleft_rleft - curve[l].x + curve[r].x
Shifted == RAdd(RSub(x_lleft_rleft, At(curve, l).x), At(curve, r).x)

Advance(cond, xl, yl, nl, nr) ==
    /\ pc = "loop"
    /\ InLoop
    /\ AssertionI /\ AssertionII
    /\ Divisible
    /\ ~InWindow
    /\ cond
    /\ x_lleft_rleft' = xl
    /\ y_lleft_rleft' = yl
    /\ l' = nl
    /\ r' = nr
    /\ UNCHANGED <<driverVars, paramVars, pc, outcome>>

ShiftBoth ==
    Advance(Shifted = segment_x,
            RAdd(x_lleft_rleft, RSub(At(curve, r).x, At(curve, l).x)),
            RAdd(y_lleft_rleft, RSub(At(curve, r).y, At(curve, l).y)),
            l + 1, r + 1)

AdvanceRight ==
    Advance(RLt(Shifted, segment_x),
            RAdd(x_lleft_rleft, At(curve, r).x),
            RAdd(y_lleft_rleft, At(curve, r).y),
            l, r + 1)

\* the eviction of curve[l] that forgets to take its width out of the sum
AdvanceLeftKeepsWidth ==
    Advance(RGt(Shifted, segment_x),
            x_lleft_rleft,
            RSub(y_lleft_rleft, At(curve, l).y),
            l + 1, r)

AdvanceLeft ==
    Advance(RGt(Shifted, segment_x),
            RSub(x_lleft_rleft, At(curve, l).x),
            RSub(y_lleft_rleft, At(curve, l).y),
            l + 1, r)

Next ==
    \/ Call
    \/ BaseCaseReturn
    \/ BaseCaseAssertionError
    \/ EnterSweep
    \/ InitialAdvance
    \/ InitialAdvanceIndexError
    \/ InitialAdvanceDone
    \/ LoopExhausted
    \/ LoopAssertionError
    \/ LoopZeroDivisionError
    \/ FoundReturn
    \/ ShiftBoth
    \/ AdvanceRight
    \/ AdvanceLeft

Spec == Init /\ [][Next]_vars

(***************************************************************************)
(* Properties                                                              *)
(***************************************************************************)
\* the last call has returned to the driver; its parameters are still in place
Returned == pc = "driver" /\ calls > 0

ValidCall == ValidInput(segment_x, segment_y, curve)

WithinEPS(a, b) == RLt(RAbs(RSub(a, b)), EPS)

\* C1: for every valid input, the found section that reorder_step returns has
\* width segment_x and height segment_y: within EPS when the base case
\* returns, exactly when the sweep returns.
C1_FoundMatchesTarget ==
    (Returned /\ ValidCall) =>
        /\ WithinEPS(SumX(found), segment_x)
        /\ WithinEPS(SumY(found), segment_y)
        /\ outcome = "sweep" => (SumX(found) = segment_x /\ SumY(found) = segment_y)

\* C2: for every valid input, found and rest together carry exactly the
\* displacement of the input curve.
C2_Conservation ==
    (Returned /\ ValidCall) =>
        /\ RAdd(SumX(found), SumX(rest)) = SumX(curve)
        /\ RAdd(SumY(found), SumY(rest)) = SumY(curve)

StyleLength(c) ==
    LET RECURSIVE Total(_)
        Total(i) == IF i = 0 THEN Zero
                    ELSE RAdd(RSub(c[i].style[2], c[i].style[1]), Total(i - 1))
    IN  Total(Len(c))

StyleDisjoint(c) ==
    \A i, j \in 1..Len(c) :
        i < j => \/ RLe(c[i].style[2], c[j].style[1])
                 \/ RLe(c[j].style[2], c[i].style[1])

StyleInUnit(c) ==
    \A i \in 1..Len(c) :
        /\ RLe(Zero, c[i].style[1])
        /\ RLe(c[i].style[1], c[i].style[2])
        /\ RLe(c[i].style[2], One)

\* C3: along a chain of calls with valid inputs, the style ranges of all found
\* sections so far and of the current rest cover [0,1] exactly once.
C3_StylePartition ==
    (pc = "driver" /\ valid) =>
        /\ StyleInUnit(allFound \o rest)
        /\ StyleDisjoint(allFound \o rest)
        /\ StyleLength(allFound \o rest) = One

\* C4: a call with a valid input never fails: it returns a pair.
C4_ValidCallReturns == (pc = "failed" /\ calls > 0) => ~ValidCall

\* C5: a call on a non-empty curve with all dx >= 0 that does not return
\* fails by one of the three assertions or by the exhaustion error.
C5_OnlySpecifiedFailures ==
    (pc = "failed" /\ curve # <<>> /\ \A i \in 1..Len(curve) : curve[i].x[1] >= 0) =>
        outcome \in {"AssertionError base", "AssertionError I", "AssertionError II",
                     "Exception unreachable"}

\* C6: when the width and the height of the curve both match the target
\* within EPS, the call returns (curve, []) from the base case: found is the
\* input itself, rest is empty and the sweep has not moved.
C6_BaseCase ==
    (/\ calls > 0
     /\ pc # "entry"
     /\ WithinEPS(SumX(curve), segment_x)
     /\ WithinEPS(SumY(curve), segment_y)) =>
        /\ pc = "driver"
        /\ outcome = "base"
        /\ found = curve
        /\ rest = <<>>
        /\ l = 0 /\ r = 0 /\ x_lleft_rleft = Zero /\ y_lleft_rleft = Zero

\* a two-segment curve returned by the base case for a width that is within
\* EPS of the curve's width without being equal to it
C6_Witness ==
    /\ Returned
    /\ outcome = "base"
    /\ found = curve
    /\ Len(curve) = 2
    /\ SumX(curve) # segment_x

StyleContiguous(c) ==
    /\ \A i \in 1..Len(c) : RLe(c[i].style[1], c[i].style[2])
    /\ \A i \in 1..(Len(c) - 1) : c[i].style[2] = c[i + 1].style[1]

StyleOrdered(c) ==
    /\ \A i \in 1..Len(c) : RLe(c[i].style[1], c[i].style[2])
    /\ \A i \in 1..(Len(c) - 1) : RLe(c[i].style[2], c[i + 1].style[1])

\* C7 as claimed, taken at the return of the first call of a chain, for a
\* valid input whose window spans two distinct segments: the initial curve,
\* the found and the rest have contiguous, non-decreasing style ranges.
C7_StyleContiguous ==
    (Returned /\ calls = 1 /\ valid /\ l < r) =>
        /\ StyleContiguous(lower)
        /\ StyleContiguous(found)
        /\ StyleContiguous(rest)

\* C7 as amended: the initial curve has contiguous style ranges; every curve
\* given to reorder_step and every rest has ordered, non-overlapping style
\* ranges (style.a <= style.b <= next style.a), and so has every found that
\* the base case returns or that is cut from a window spanning two distinct
\* segments (l < r).
C7_StyleOrdered ==
    /\ StyleContiguous(lower)
    /\ StyleOrdered(rest)
    /\ StyleOrdered(curve)
    /\ (Returned /\ (outcome = "sweep" => l < r)) => StyleOrdered(found)

\* the second call of a chain has cut a window spanning two segments out of
\* a rest that already has a gap
C7_Witness ==
    /\ Returned
    /\ calls = 2
    /\ outcome = "sweep"
    /\ l < r
    /\ ~StyleContiguous(curve)
    /\ ~StyleContiguous(rest)
    /\ Len(rest) >= 2

C8_Precondition ==
    /\ AllPositive(curve)
    /\ RGt(segment_x, Zero)
    /\ RLe(segment_x, RSub(SumX(curve), EPS))

C9_RestConvex ==
    (AllPositive(lower) /\ Convex(lower)) =>
        /\ AllPositive(rest) /\ Convex(rest)
        /\ AllPositive(curve) /\ Convex(curve)

\* the second call of a chain of valid calls on a convex curve has cut a
\* window spanning two segments and left a rest of at least two segments
C9_Witness ==
    /\ Returned
    /\ calls = 2
    /\ valid
    /\ outcome = "sweep"
    /\ l < r
    /\ AllPositive(lower) /\ Convex(lower)
    /\ Len(rest) >= 2
    /\ rest # curve

InUnit(f) == RLe(Zero, f) /\ RLe(f, One)

C10_FoundBranch ==
    /\ pc = "loop"
    /\ InLoop
    /\ AllPositive(curve)
    /\ AssertionI /\ AssertionII
    /\ InWindow

\* C10: when the sweep reaches the found branch on a curve with all dx > 0,
\* the placements lie inside segments l and r, the two ends move by the same
\* amount, fr and both split fractions lie in [0,1]; a returned segment never
\* has a negative width or a reversed style range.
C10_SplitContract ==
    /\ C10_FoundBranch =>
          /\ RLe(Zero, min_l_pos) /\ RLe(min_l_pos, max_l_pos)
          /\ RLe(max_l_pos, At(curve, l).x)
          /\ RLe(Zero, min_r_pos) /\ RLe(min_r_pos, max_r_pos)
          /\ RLe(max_r_pos, At(curve, r).x)
          /\ RSub(max_l_pos, min_l_pos) = RSub(max_r_pos, min_r_pos)
          /\ InUnit(fr) /\ InUnit(of_left) /\ InUnit(of_right)
    /\ (Returned /\ outcome = "sweep" /\ AllPositive(curve)) =>
          \A i \in 1..Len(found \o rest) :
              /\ (found \o rest)[i].x[1] >= 0
              /\ RLe((found \o rest)[i].style[1], (found \o rest)[i].style[2])

\* the found branch with a window over two distinct segments and a proper
\* interpolation fraction
C10_Witness ==
    /\ C10_FoundBranch
    /\ l < r
    /\ RLt(Zero, fr) /\ RLt(fr, One)
    /\ RLt(Zero, of_left) /\ RLt(of_left, One)

====
